---- MODULE Spec2Model ----
(***************************************************************************)
(* A model of sudoku.py: the SudokuObject board and its queries, the       *)
(* pencil-mark propagator (SudokuPencilMark.run) and the genetic solver    *)
(* (SudokuGA).  Indices are 0-based as in the source: a grid is a function *)
(* g[i][j] with i, j in 0..8, a candidate vector is indexed by val-1.      *)
(***************************************************************************)
EXTENDS Integers, Sequences, FiniteSets, TLC

\* ------------------------------------------------------------------ bounds

\* Cells with row-major index below MaxPokeIndex may be overwritten (with any
\* value 0..9) in the test puzzle to form the propagator's input boards.
MaxPokeIndex == 18

\* The first GAPokeIndex cells (row-major) of the solved test puzzle may be
\* blanked or given their right neighbour's value to form the solver's inputs.
GAPokeIndex == 2

\* The boards measured by the fitness function: the solved test puzzle with
\* row 0 swapped with a row 0..MaxSwapRow, then at most MaxEdits cells of
\* EditCells overwritten with a symbol 1..9.
MaxSwapRow == 3
MaxEdits == 2

\* SudokuGA's search policy, scaled down.  The source sets 0.10, 0.10, 10 and
\* 1000 (one parent pair breeds 10 children, 100 pairs a generation) and 100
\* cycles, 5 restarts; the model keeps the same shape with one pair breeding
\* the whole population.  Percentages are whole numbers of percent.
best_select_perc == 25
rand_select_perc == 25
num_of_children == 4
ScaledPopulationSize == 4
max_cycles == 2
max_restart == 2

\* The population sizes 1..MaxPopulationSize the policy's validation is tried
\* on, the other settings as above.
MaxPopulationSize == 6

\* The rest of the policy, as the source sets it.
mutation_perc == 60
mutation_max_num_cells == 5

\* ------------------------------------------------------------------ board

Idx == 0..8

Coords == Idx \X Idx

\* The puzzle at the foot of the source file, row-major.
testdoku ==
  << 0, 8, 0, 0, 0, 0, 0, 9, 0,
     0, 0, 7, 5, 0, 2, 8, 0, 0,
     6, 0, 0, 8, 0, 7, 0, 0, 5,
     3, 7, 0, 0, 8, 0, 0, 5, 1,
     2, 0, 0, 0, 0, 0, 0, 0, 8,
     9, 5, 0, 0, 4, 0, 0, 3, 2,
     8, 0, 0, 1, 0, 4, 0, 0, 9,
     0, 0, 1, 9, 0, 3, 6, 0, 0,
     0, 4, 0, 0, 0, 0, 0, 2, 0 >>

\* SudokuObject.__init__: element number k (0-based) goes to row k // 9.
SudokuObject(sudoku_data) ==
  [i \in Idx |-> [j \in Idx |-> sudoku_data[i * 9 + j + 1]]]

whatis_rowlist(g, i) == g[i]

whatis_collist(g, j) == [i \in Idx |-> g[i][j]]

whatis_blklist(g, i, j) ==
  [k \in Idx |-> g[(i \div 3) * 3 + (k \div 3)][(j \div 3) * 3 + (k % 3)]]

update(g, i, j, n) == [g EXCEPT ![i][j] = n]

\* A related_coords that forgets the block part.
related_coords_noblk(i, j) ==
  {<<i, rel_j>> : rel_j \in Idx \ {j}} \cup {<<rel_i, j>> : rel_i \in Idx \ {i}}

related_coords(i, j) ==
  LET rel_row == {<<i, rel_j>> : rel_j \in Idx \ {j}}
      rel_col == {<<rel_i, j>> : rel_i \in Idx \ {i}}
      blk_i0  == (i \div 3) * 3
      blk_j0  == (j \div 3) * 3
      rel_blk == {c \in (blk_i0 .. blk_i0 + 2) \X (blk_j0 .. blk_j0 + 2) :
                    c[1] # i /\ c[2] # j}
  IN  rel_row \cup rel_col \cup rel_blk

\* SudokuObject.copy: flatten row-major, then rebuild.
copy(g) == SudokuObject([k \in 1..81 |-> g[(k - 1) \div 9][(k - 1) % 9]])

\* ------------------------------------------------- pencil mark (operators)

\* SudokuPencilMark.__init__: every value possible in every cell.
AllPossible == [i \in Idx |-> [j \in Idx |-> [n \in Idx |-> TRUE]]]

\* The loop over related_coords(i, j): the flag of value index n is cleared in
\* every related cell.
RECURSIVE ClearRelated(_, _, _)
ClearRelated(pv, rel, n) ==
  IF rel = {} THEN pv
  ELSE LET coord == CHOOSE c \in rel : TRUE
       IN  ClearRelated([pv EXCEPT ![coord[1]][coord[2]][n] = FALSE],
                        rel \ {coord}, n)

\* The body of the first double loop of run for one cell (i, j).
ConstrainCell(g, pv, i, j) ==
  LET val == g[i][j]
  IN  IF val = 0 THEN pv
      ELSE ClearRelated([pv EXCEPT ![i][j] = [n \in Idx |-> n = val - 1]],
                        related_coords(i, j), val - 1)

\* The inner loop of the first double loop: row i from column j on.  The
\* comparison only makes a cell's result be computed before the next cell is
\* visited.
RECURSIVE ConstrainRow(_, _, _, _)
ConstrainRow(g, pv, i, j) ==
  IF j = 9 THEN pv
  ELSE LET after == ConstrainCell(g, pv, i, j)
       IN  IF after = pv THEN ConstrainRow(g, pv, i, j + 1)
           ELSE ConstrainRow(g, after, i, j + 1)

\* The outer loop of the first double loop: rows from i on.
RECURSIVE ConstrainRows(_, _, _)
ConstrainRows(g, pv, i) ==
  IF i = 9 THEN pv
  ELSE LET after == ConstrainRow(g, pv, i, 0)
       IN  IF after = pv THEN ConstrainRows(g, pv, i + 1)
           ELSE ConstrainRows(g, after, i + 1)

\* The first double loop of run, cells in row-major order.
ConstrainPass(g, pv) == ConstrainRows(g, pv, 0)

\* cell.count(True)
CountTrue(cell) == Cardinality({n \in Idx : cell[n]})

\* cell.index(True)
IndexTrue(cell) == CHOOSE n \in Idx : cell[n] /\ \A m \in 0..(n - 1) : ~cell[m]

\* The value written without the + 1.
revealed_value_off(cell) == IndexTrue(cell)

\* The value the reveal loop writes: cell.index(True) + 1.
revealed_value(cell) == IndexTrue(cell) + 1

\* The loop of run left after the first round whatever it found.
loop_breaks_always(found) == TRUE

\* The test that ends run: values_found == 0.
loop_breaks(found) == found = 0

\* The condition of the second double loop of run.
Revealable(g, pv, k) ==
  CountTrue(pv[k \div 9][k % 9]) = 1 /\ g[k \div 9][k % 9] = 0

\* The inner loop of the second double loop: row i from column j on.
RECURSIVE RevealRow(_, _, _, _)
RevealRow(g, pv, i, j) ==
  IF j = 9 THEN g
  ELSE LET after == IF Revealable(g, pv, i * 9 + j)
                    THEN update(g, i, j, revealed_value(pv[i][j]))
                    ELSE g
       IN  IF after = g THEN RevealRow(g, pv, i, j + 1)
           ELSE RevealRow(after, pv, i, j + 1)

\* The second double loop of run as a whole: rows from i on.
RECURSIVE RevealRows(_, _, _)
RevealRows(g, pv, i) ==
  IF i = 9 THEN g
  ELSE LET after == RevealRow(g, pv, i, 0)
       IN  IF after = g THEN RevealRows(g, pv, i + 1)
           ELSE RevealRows(after, pv, i + 1)

\* SudokuPencilMark.run from its first round to its break; values_found is
\* the number of cells the round wrote (each is written once, from 0).
RECURSIVE PencilMarkRun(_, _)
PencilMarkRun(g, pv) ==
  LET constrained == ConstrainPass(g, pv)
      revealed    == RevealRows(g, constrained, 0)
      found       == Cardinality({c \in Coords : revealed[c[1]][c[2]] # g[c[1]][c[2]]})
  IN  \* the first test only makes the constrain loop end before the reveal
      \* loop begins
      IF DOMAIN constrained = Idx /\ loop_breaks(found)
      THEN revealed
      ELSE PencilMarkRun(revealed, constrained)

\* The board the propagator leaves on the source's test puzzle (it is full).
Solved == PencilMarkRun(SudokuObject(testdoku), AllPossible)

\* ------------------------------------------------------ genetic algorithm

\* The symbols 1..9 absent from a 9-element list.
Absent(list) == (1..9) \ {list[k] : k \in Idx}

\* A fitness that looks at the rows only.
fitness_rowsonly(g) ==
  Cardinality(UNION {{<<i>>} \X Absent(whatis_rowlist(g, i)) : i \in Idx})

\* A fitness that forgets the blocks.
fitness_noblocks(g) ==
  Cardinality(UNION {{<<i>>} \X Absent(whatis_rowlist(g, i)) : i \in Idx})
  + Cardinality(UNION {{<<j>>} \X Absent(whatis_collist(g, j)) : j \in Idx})

\* _fitness_filled_sudoku: one point for every (group, symbol) with the symbol
\* absent from the group, over the 9 rows, 9 columns and 9 blocks.
fitness_filled_sudoku(g) ==
  Cardinality(UNION {{<<i>>} \X Absent(whatis_rowlist(g, i)) : i \in Idx})
  + Cardinality(UNION {{<<j>>} \X Absent(whatis_collist(g, j)) : j \in Idx})
  + Cardinality(UNION {{<<i, j>>} \X Absent(whatis_blklist(g, i, j)) :
                         i \in {0, 3, 6}, j \in {0, 3, 6}})

\* pos_values.remove(n) that removes nothing.
remove_nothing(pos_values, n) == pos_values

\* pos_values.remove(n); pos_values never holds a symbol twice.
remove(pos_values, n) == pos_values \ {n}

\* _rand_fill_sudoku from cell k (row-major) on: the set of boards rd.choice
\* can lead to.  pos_values is rebuilt from the row at the start of each row.
RECURSIVE rand_fill_row(_, _, _, _)
rand_fill_row(g, i, j, pos_values) ==
  IF j = 9 THEN {g}
  ELSE IF g[i][j] = 0
       THEN UNION {rand_fill_row(update(g, i, j, n), i, j + 1, remove(pos_values, n)) :
                     n \in pos_values}
       ELSE rand_fill_row(g, i, j + 1, pos_values)

\* The rows in turn; the comparison has the boards of one row evaluated before
\* the next row starts.
RECURSIVE rand_fill_from(_, _)
rand_fill_from(S, i) ==
  IF i = 9 THEN S
  ELSE LET filled == UNION {rand_fill_row(g, i, 0,
                              {n \in 1..9 : \A c \in Idx : g[i][c] # n}) : g \in S}
       IN  IF filled = S THEN rand_fill_from(S, i + 1)
           ELSE rand_fill_from(filled, i + 1)

rand_fill_sudoku(initsudoku) == rand_fill_from({initsudoku}, 0)

\* A test that looks at the first of the two cells only.
swappable_first(fixed_coords, i, j1, j2) == <<i, j1>> \notin fixed_coords

\* _mutate's test: neither (i, j1) nor (i, j2) is a fixed coordinate.
swappable(fixed_coords, i, j1, j2) ==
  <<i, j1>> \notin fixed_coords /\ <<i, j2>> \notin fixed_coords

\* One attempt of _mutate with the random row i and columns j1, j2.
mutate_attempt(g, fixed_coords, i, j1, j2) ==
  IF swappable(fixed_coords, i, j1, j2)
  THEN update(update(g, i, j1, g[i][j2]), i, j2, g[i][j1])
  ELSE g

\* The boards one more attempt can make of the boards in S: every (i, j1, j2)
\* of randint(0, 8) three times.  The triples that hit a fixed cell all give
\* the board back, so they are applied once.
mutate_step(S, fixed_coords) ==
  LET triples == Idx \X Idx \X Idx
      free    == {t \in triples : swappable(fixed_coords, t[1], t[2], t[3])}
      hit     == IF free = triples THEN {} ELSE {CHOOSE t \in triples \ free : TRUE}
  IN  {mutate_attempt(g, fixed_coords, t[1], t[2], t[3]) :
         g \in S, t \in free \cup hit}

RECURSIVE mutate_from(_, _, _)
mutate_from(S, fixed_coords, attempts) ==
  IF attempts = 0 THEN S
  ELSE mutate_from(mutate_step(S, fixed_coords), fixed_coords, attempts - 1)

\* _generate_children, one child: row i comes from sudoku1 when pick[i] = 1 and
\* from sudoku2 when pick[i] = 2; the 81 values then go through SudokuObject.
generate_child(sudoku1, sudoku2, pick) ==
  SudokuObject([k \in 1..81 |->
     IF pick[(k - 1) \div 9] = 1
     THEN whatis_rowlist(sudoku1, (k - 1) \div 9)[(k - 1) % 9]
     ELSE whatis_rowlist(sudoku2, (k - 1) \div 9)[(k - 1) % 9]])

\* The nine rd.randint(1, 2) of one child.  Where the two parents have the
\* same row either outcome gives the same child, so 1 stands for both.
coin_flips(sudoku1, sudoku2) ==
  {pick \in [Idx -> {1, 2}] :
     \A i \in Idx : whatis_rowlist(sudoku1, i) = whatis_rowlist(sudoku2, i) => pick[i] = 1}

\* The sort key of every element of pop from place k on, each computed once.
RECURSIVE fitness_keys(_, _)
fitness_keys(pop, k) ==
  IF k > Len(pop) THEN <<>>
  ELSE <<fitness_filled_sudoku(pop[k])>> \o fitness_keys(pop, k + 1)

\* A sort that leaves the population as it is.
sort_skipped(pop) == pop

\* The population in ascending order of the keys f, stable: the element at
\* place k goes behind every element of lower key and every earlier equal one.
sorted_by_keys(pop, f) ==
  LET place(k) == 1 + Cardinality({m \in 1..Len(pop) :
                         f[m] < f[k] \/ (f[m] = f[k] /\ m < k)})
  IN  [q \in 1..Len(pop) |-> pop[CHOOSE k \in 1..Len(pop) : place(k) = q]]

\* population.sort(key=fitness): the key of each element is computed once.
sort_by_fitness(pop) ==
  CHOOSE sorted \in {sorted_by_keys(pop, f) : f \in {fitness_keys(pop, 1)}} : TRUE

\* ------------------------------------------------------------------- state

VARIABLES
  q_pc, q_i, q_j, q_related,      \* a call of related_coords(i, j)
  pm_pc,                          \* position in SudokuPencilMark.run
  sudoku,                         \* the SudokuObject's _grid
  possible_values_grid,           \* SudokuPencilMark._possible_values_grid
  values_found,                   \* run's counter
  cursor,                         \* row-major position of the reveal loop
  run_no,                         \* 1: first propagator, 2: a second one
  input,                          \* the board as handed to the first propagator
  pass_grid,                      \* the board as the last constrain pass read it
  last_write,                     \* the last cell written: <<i, j, n>>, or <<>>
  first_result,                   \* the board the first propagator left
  ga_pc,                          \* position in SudokuGA.__init__ / run
  population_size,                \* SudokuGA._population_size
  init_sudoku,                    \* SudokuGA._init_sudoku
  fixed,                          \* SudokuGA._fixed
  population,                     \* run's population
  restart_no,                     \* restarts begun (the outer loop)
  cycle_no,                       \* generations begun in this restart
  parents_list,                   \* run's parents_list
  children_list,                  \* run's children_list
  pair_i,                         \* the pairing loop's i
  to_mutate,                      \* places in children_list still to mutate
  returned,                       \* the board run returned
  generations,                    \* generations evaluated by this call of run
  cycles_done,                    \* generations evaluated by each ended restart
  zero_seen,                      \* an evaluated generation held a fitness-0 board
  f_board, f_edits, f_fitness, f_pc   \* a board, edited, then measured

vars_q == <<q_pc, q_i, q_j, q_related>>

vars_pm == <<pm_pc, sudoku, possible_values_grid, values_found, cursor, run_no,
             input, pass_grid, last_write, first_result>>

vars_ga == <<ga_pc, population_size, init_sudoku, fixed, population, restart_no, cycle_no,
             parents_list, children_list, pair_i, to_mutate, returned,
             generations, cycles_done, zero_seen>>

vars_f == <<f_board, f_edits, f_fitness, f_pc>>

vars == <<vars_q, vars_pm, vars_ga, vars_f>>

EmptyGrid == [i \in Idx |-> [j \in Idx |-> 0]]

Idle_q == q_pc = "idle" /\ q_i = 0 /\ q_j = 0 /\ q_related = {}

Idle_pm ==
  /\ pm_pc = "idle" /\ sudoku = EmptyGrid /\ possible_values_grid = AllPossible
  /\ values_found = 0 /\ cursor = 0 /\ run_no = 0 /\ input = EmptyGrid
  /\ pass_grid = EmptyGrid /\ last_write = <<>> /\ first_result = EmptyGrid

Idle_ga ==
  /\ ga_pc = "idle" /\ population_size = 0 /\ init_sudoku = EmptyGrid /\ fixed = {}
  /\ population = <<>> /\ restart_no = 0 /\ cycle_no = 0
  /\ parents_list = <<>> /\ children_list = <<>> /\ pair_i = 0
  /\ to_mutate = {} /\ returned = EmptyGrid
  /\ generations = 0 /\ cycles_done = <<>> /\ zero_seen = FALSE

Idle_f == f_pc = "idle" /\ f_board = EmptyGrid /\ f_edits = 0 /\ f_fitness = 0

\* ------------------------------------------------- related_coords, called

Init_q == q_pc = "call" /\ q_i \in Idx /\ q_j \in Idx /\ q_related = {}

call_related_coords ==
  /\ q_pc = "call"
  /\ q_related' = related_coords(q_i, q_j)
  /\ q_pc' = "returned"
  /\ UNCHANGED <<q_i, q_j, vars_pm, vars_ga, vars_f>>

Init_Related == Init_q /\ Idle_pm /\ Idle_ga /\ Idle_f

Next_Related == call_related_coords

SpecRelated == Init_Related /\ [][Next_Related]_vars

\* ------------------------------------------------------- pencil mark, run

\* The input boards: the test puzzle with one cell overwritten.
PokedBoards ==
  {update(SudokuObject(testdoku), k \div 9, k % 9, v) :
     k \in 0..(MaxPokeIndex - 1), v \in 0..9}

Init_pm ==
  /\ sudoku \in PokedBoards
  /\ input = sudoku
  /\ possible_values_grid = AllPossible
  /\ pm_pc = "constrain"
  /\ values_found = 0 /\ cursor = 0 /\ run_no = 1
  /\ pass_grid = EmptyGrid /\ last_write = <<>> /\ first_result = EmptyGrid

\* One round's first half: values_found = 0, then the constrain loop.
run_constrain ==
  /\ pm_pc = "constrain"
  /\ values_found' = 0
  /\ possible_values_grid' = ConstrainPass(sudoku, possible_values_grid)
  /\ pass_grid' = sudoku
  /\ cursor' = 0
  /\ pm_pc' = "reveal"
  /\ UNCHANGED <<sudoku, run_no, input, last_write, first_result>>
  /\ UNCHANGED <<vars_q, vars_ga, vars_f>>

\* The reveal loop up to and including its next write.
run_reveal_write ==
  /\ pm_pc = "reveal"
  /\ \E k \in cursor..80 :
       /\ Revealable(sudoku, possible_values_grid, k)
       /\ \A m \in cursor..(k - 1) : ~Revealable(sudoku, possible_values_grid, m)
       /\ LET n == revealed_value(possible_values_grid[k \div 9][k % 9])
          IN  /\ sudoku' = update(sudoku, k \div 9, k % 9, n)
              /\ last_write' = <<k \div 9, k % 9, n>>
       /\ values_found' = values_found + 1
       /\ cursor' = k + 1
  /\ UNCHANGED <<pm_pc, possible_values_grid, run_no, input, pass_grid, first_result>>
  /\ UNCHANGED <<vars_q, vars_ga, vars_f>>

\* The reveal loop runs out of cells: break when nothing was found.
run_reveal_end ==
  /\ pm_pc = "reveal"
  /\ \A m \in cursor..80 : ~Revealable(sudoku, possible_values_grid, m)
  /\ pm_pc' = IF loop_breaks(values_found) THEN "done" ELSE "constrain"
  /\ cursor' = 81
  /\ UNCHANGED <<sudoku, possible_values_grid, values_found, run_no, input,
                 pass_grid, last_write, first_result>>
  /\ UNCHANGED <<vars_q, vars_ga, vars_f>>

\* A second SudokuPencilMark is built on the same board and run.
run_again ==
  /\ pm_pc = "done" /\ run_no = 1
  /\ first_result' = sudoku
  /\ possible_values_grid' = AllPossible
  /\ run_no' = 2
  /\ last_write' = <<>>
  /\ pm_pc' = "constrain"
  /\ UNCHANGED <<sudoku, values_found, cursor, input, pass_grid>>
  /\ UNCHANGED <<vars_q, vars_ga, vars_f>>

Init_PencilMark == Init_pm /\ Idle_q /\ Idle_ga /\ Idle_f

Next_PencilMark ==
  run_constrain \/ run_reveal_write \/ run_reveal_end \/ run_again

SpecPencilMark == Init_PencilMark /\ [][Next_PencilMark]_vars

\* ------------------------------------------------- genetic solver, run

\* The parent counts of a generation that round one too many.
num_of_best_up == (best_select_perc * population_size) \div 100 + 1

\* int(self._best_select_perc * self._population_size)
num_of_best == (best_select_perc * population_size) \div 100

\* int(self._rand_select_perc * self._population_size)
num_of_rand == (rand_select_perc * population_size) \div 100

\* int(self._mutation_perc * self._population_size)
num_mutation == (mutation_perc * population_size) \div 100

\* The two tests of SudokuGA.__init__, in exact arithmetic.
ConfigAccepted ==
  /\ (best_select_perc + rand_select_perc) * num_of_children = 200
  /\ population_size % 2 = 0

\* _mutate: mutation_max_num_cells attempts; the boards it can leave.
mutate(g, fixed_coords) == mutate_from({g}, fixed_coords, mutation_max_num_cells)

\* The solver's input boards: the solved test puzzle with each of its first
\* GAPokeIndex cells kept, blanked, or set to its right neighbour's value.
GAInputs ==
  {[i \in Idx |-> [j \in Idx |->
      IF i * 9 + j >= GAPokeIndex THEN Solved[i][j]
      ELSE CASE how[i * 9 + j] = "keep"  -> Solved[i][j]
             [] how[i * 9 + j] = "blank" -> 0
             [] OTHER -> Solved[(i * 9 + j + 1) \div 9][(i * 9 + j + 1) % 9]]] :
     how \in [0..(GAPokeIndex - 1) -> {"keep", "blank", "dup"}]}

\* The orders rd.shuffle can leave the members of S in.
Orderings(S) ==
  {o \in [1..Cardinality(S) -> S] : \A a, b \in 1..Cardinality(S) : o[a] = o[b] => a = b}

Init_ga ==
  /\ population_size \in 1..MaxPopulationSize
  /\ init_sudoku \in GAInputs
  /\ ga_pc = "construct"
  /\ fixed = {}
  /\ population = <<>> /\ restart_no = 0 /\ cycle_no = 0
  /\ parents_list = <<>> /\ children_list = <<>> /\ pair_i = 0
  /\ to_mutate = {} /\ returned = EmptyGrid
  /\ generations = 0 /\ cycles_done = <<>> /\ zero_seen = FALSE

\* SudokuGA.__init__: the two configuration tests, then the fixed coordinates.
ga_construct ==
  /\ ga_pc = "construct"
  /\ IF ConfigAccepted
     THEN /\ fixed' = {c \in Coords : init_sudoku[c[1]][c[2]] # 0}
          /\ ga_pc' = "restart"
     ELSE /\ fixed' = fixed
          /\ ga_pc' = "config_error"
  /\ UNCHANGED <<population_size, init_sudoku, population, restart_no, cycle_no, parents_list,
                 children_list, pair_i, to_mutate, returned, generations,
                 cycles_done, zero_seen>>
  /\ UNCHANGED <<vars_q, vars_pm, vars_f>>

\* The outer loop of run begins another restart.
ga_restart ==
  /\ ga_pc = "restart" /\ restart_no < max_restart
  /\ restart_no' = restart_no + 1
  /\ population' = <<>>
  /\ cycle_no' = 0
  /\ ga_pc' = IF population_size = 0 THEN "cycle" ELSE "fill"
  /\ UNCHANGED <<population_size, init_sudoku, fixed, parents_list, children_list, pair_i,
                 to_mutate, returned, generations, cycles_done, zero_seen>>
  /\ UNCHANGED <<vars_q, vars_pm, vars_f>>

\* The outer loop of run is over: raise Exception("Couldn't find a solution").
ga_raise ==
  /\ ga_pc = "restart" /\ restart_no >= max_restart
  /\ ga_pc' = "raised"
  /\ UNCHANGED <<population_size, init_sudoku, fixed, population, restart_no, cycle_no,
                 parents_list, children_list, pair_i, to_mutate, returned,
                 generations, cycles_done, zero_seen>>
  /\ UNCHANGED <<vars_q, vars_pm, vars_f>>

\* One individual of the first population: a copy of the input, filled.
ga_fill ==
  /\ ga_pc = "fill"
  /\ \E new_sudoku \in rand_fill_sudoku(copy(init_sudoku)) :
       population' = Append(population, new_sudoku)
  /\ ga_pc' = IF Len(population) + 1 >= population_size THEN "cycle" ELSE "fill"
  /\ UNCHANGED <<population_size, init_sudoku, fixed, restart_no, cycle_no, parents_list,
                 children_list, pair_i, to_mutate, returned, generations,
                 cycles_done, zero_seen>>
  /\ UNCHANGED <<vars_q, vars_pm, vars_f>>

\* One generation is evaluated: sort, then return population[0] when its
\* fitness is 0 (population[0] of an empty list raises IndexError).
ga_evaluate ==
  /\ ga_pc = "cycle" /\ cycle_no < max_cycles
  /\ cycle_no' = cycle_no + 1
  /\ generations' = generations + 1
  /\ \E sorted \in {sort_by_fitness(population)} :
       /\ population' = sorted
       /\ IF Len(sorted) = 0
          THEN ga_pc' = "crashed" /\ returned' = returned
          ELSE IF fitness_filled_sudoku(sorted[1]) = 0
               THEN ga_pc' = "returned" /\ returned' = sorted[1]
               ELSE ga_pc' = "select" /\ returned' = returned
  /\ zero_seen' = (zero_seen \/ \E k \in 1..Len(population) :
                                  fitness_filled_sudoku(population[k]) = 0)
  /\ UNCHANGED <<population_size, init_sudoku, fixed, restart_no, parents_list, children_list,
                 pair_i, to_mutate, cycles_done>>
  /\ UNCHANGED <<vars_q, vars_pm, vars_f>>

\* The inner loop of run is over without a solution.
ga_cycles_over ==
  /\ ga_pc = "cycle" /\ cycle_no >= max_cycles
  /\ cycles_done' = Append(cycles_done, cycle_no)
  /\ ga_pc' = "restart"
  /\ UNCHANGED <<population_size, init_sudoku, fixed, population, restart_no, cycle_no,
                 parents_list, children_list, pair_i, to_mutate, returned,
                 generations, zero_seen>>
  /\ UNCHANGED <<vars_q, vars_pm, vars_f>>

\* The parents: the first num_of_best of the sorted population, a sample of
\* num_of_rand of the others (rd.sample raises ValueError when there are too
\* few), shuffled.
ga_select ==
  /\ ga_pc = "select"
  /\ LET others == (num_of_best + 1)..Len(population)
     IN  IF num_of_rand > Cardinality(others)
         THEN ga_pc' = "crashed" /\ parents_list' = parents_list
         ELSE /\ \E sample \in {S \in SUBSET others : Cardinality(S) = num_of_rand} :
                   \E order \in Orderings((1..num_of_best) \cup sample) :
                     parents_list' = [k \in 1..Len(order) |-> population[order[k]]]
              /\ ga_pc' = IF num_of_best + num_of_rand = 0 THEN "sample" ELSE "breed"
  /\ children_list' = <<>>
  /\ pair_i' = 0
  /\ UNCHANGED <<population_size, init_sudoku, fixed, population, restart_no, cycle_no,
                 to_mutate, returned, generations, cycles_done, zero_seen>>
  /\ UNCHANGED <<vars_q, vars_pm, vars_f>>

\* One child of the pair parents_list[i], parents_list[i+1] (0-based; the
\* second raises IndexError when the list is odd).  After num_of_children
\* children the pairing loop moves on by two.
ga_breed ==
  /\ ga_pc = "breed"
  /\ IF pair_i + 1 >= Len(parents_list)
     THEN ga_pc' = "crashed" /\ UNCHANGED <<children_list, pair_i>>
     ELSE \E pick \in coin_flips(parents_list[pair_i + 1], parents_list[pair_i + 2]) :
            LET child == generate_child(parents_list[pair_i + 1],
                                        parents_list[pair_i + 2], pick)
                born  == Len(children_list) + 1 - (pair_i \div 2) * num_of_children
            IN  /\ children_list' = Append(children_list, child)
                /\ pair_i' = IF born >= num_of_children THEN pair_i + 2 ELSE pair_i
                /\ ga_pc' = IF born >= num_of_children /\ pair_i + 2 >= Len(parents_list)
                            THEN "sample" ELSE "breed"
  /\ UNCHANGED <<population_size, init_sudoku, fixed, population, restart_no, cycle_no,
                 parents_list, to_mutate, returned, generations, cycles_done,
                 zero_seen>>
  /\ UNCHANGED <<vars_q, vars_pm, vars_f>>

\* rd.sample(children_list, num_mutation): the children to mutate (ValueError
\* when there are too few children).
ga_sample ==
  /\ ga_pc = "sample"
  /\ IF num_mutation > Len(children_list)
     THEN ga_pc' = "crashed" /\ to_mutate' = to_mutate
     ELSE /\ to_mutate' \in {M \in SUBSET (1..Len(children_list)) :
                               Cardinality(M) = num_mutation}
          /\ ga_pc' = "mutate"
  /\ UNCHANGED <<population_size, init_sudoku, fixed, population, restart_no, cycle_no,
                 parents_list, children_list, pair_i, returned, generations,
                 cycles_done, zero_seen>>
  /\ UNCHANGED <<vars_q, vars_pm, vars_f>>

\* _mutate on one sampled child (the sampled children are different objects,
\* so the order they are visited in is immaterial: lowest place first).
ga_mutate ==
  /\ ga_pc = "mutate" /\ to_mutate # {}
  /\ LET k == CHOOSE m \in to_mutate : \A o \in to_mutate : m <= o
     IN  /\ \E g \in mutate(children_list[k], fixed) :
              children_list' = [children_list EXCEPT ![k] = g]
         /\ to_mutate' = to_mutate \ {k}
  /\ UNCHANGED <<ga_pc, population_size, init_sudoku, fixed, population, restart_no, cycle_no,
                 parents_list, pair_i, returned, generations, cycles_done,
                 zero_seen>>
  /\ UNCHANGED <<vars_q, vars_pm, vars_f>>

\* population = children_list
ga_next_population ==
  /\ ga_pc = "mutate" /\ to_mutate = {}
  /\ population' = children_list
  /\ ga_pc' = "cycle"
  /\ UNCHANGED <<population_size, init_sudoku, fixed, restart_no, cycle_no, parents_list,
                 children_list, pair_i, to_mutate, returned, generations,
                 cycles_done, zero_seen>>
  /\ UNCHANGED <<vars_q, vars_pm, vars_f>>

\* The solver as the source configures it (to scale).
Init_GA ==
  Init_ga /\ population_size = ScaledPopulationSize /\ Idle_q /\ Idle_pm /\ Idle_f

\* The solver under every population size.
Init_GAConfig == Init_ga /\ Idle_q /\ Idle_pm /\ Idle_f

Next_GA ==
  \/ ga_construct \/ ga_restart \/ ga_raise \/ ga_fill \/ ga_evaluate
  \/ ga_cycles_over \/ ga_select \/ ga_breed \/ ga_sample \/ ga_mutate
  \/ ga_next_population

SpecGA == Init_GA /\ [][Next_GA]_vars

SpecGAConfig == Init_GAConfig /\ [][Next_GA]_vars

\* run is sequential code: whenever it can take a step it does.
FairSpecGA == SpecGA /\ WF_vars(Next_GA)

\* ----------------------------------------------------- fitness, measured

\* The cells the measured boards are edited in.
EditCells == (0..1) \X (0..1)

\* g with rows a and b exchanged.
SwappedRows(g, a, b) ==
  [i \in Idx |-> IF i = a THEN g[b] ELSE IF i = b THEN g[a] ELSE g[i]]

Init_f ==
  /\ f_board \in {SwappedRows(Solved, 0, b) : b \in 0..MaxSwapRow}
  /\ f_edits = 0 /\ f_fitness = 0 /\ f_pc = "edit"

\* SudokuObject.update with a symbol 1..9: the board stays full.
f_update ==
  /\ f_pc = "edit" /\ f_edits < MaxEdits
  /\ \E c \in EditCells, n \in 1..9 : f_board' = update(f_board, c[1], c[2], n)
  /\ f_edits' = f_edits + 1
  /\ UNCHANGED <<f_fitness, f_pc>>
  /\ UNCHANGED <<vars_q, vars_pm, vars_ga>>

\* _fitness_filled_sudoku(f_board)
f_measure ==
  /\ f_pc = "edit"
  /\ f_fitness' = fitness_filled_sudoku(f_board)
  /\ f_pc' = "measured"
  /\ UNCHANGED <<f_board, f_edits>>
  /\ UNCHANGED <<vars_q, vars_pm, vars_ga>>

Init_Fitness == Init_f /\ Idle_q /\ Idle_pm /\ Idle_ga

Next_Fitness == f_update \/ f_measure

SpecFitness == Init_Fitness /\ [][Next_Fitness]_vars

\* -------------------------------------------------------------- properties

\* Two different coordinates in one row, one column or one 3x3 block.
Peers(c) ==
  {d \in Coords : d # c /\ (\/ d[1] = c[1]
                            \/ d[2] = c[2]
                            \/ (d[1] \div 3 = c[1] \div 3 /\ d[2] \div 3 = c[2] \div 3))}

\* Every row, column and block of g holds each symbol 1..9 exactly once.
ValidSolution(g) ==
  /\ \A i \in Idx, n \in 1..9 : Cardinality({j \in Idx : g[i][j] = n}) = 1
  /\ \A j \in Idx, n \in 1..9 : Cardinality({i \in Idx : g[i][j] = n}) = 1
  /\ \A bi \in {0, 3, 6}, bj \in {0, 3, 6}, n \in 1..9 :
       Cardinality({c \in (bi..bi + 2) \X (bj..bj + 2) : g[c[1]][c[2]] = n}) = 1

\* S is a valid completion of board g.
Completes(S, g) ==
  ValidSolution(S) /\ \A c \in Coords : g[c[1]][c[2]] # 0 => S[c[1]][c[2]] = g[c[1]][c[2]]

\* The completion of the test puzzle, written out.
testdoku_solution ==
  SudokuObject(<<1, 8, 5, 4, 3, 6, 2, 9, 7,
                 4, 3, 7, 5, 9, 2, 8, 1, 6,
                 6, 9, 2, 8, 1, 7, 3, 4, 5,
                 3, 7, 6, 2, 8, 9, 4, 5, 1,
                 2, 1, 4, 3, 7, 5, 9, 6, 8,
                 9, 5, 8, 6, 4, 1, 7, 3, 2,
                 8, 6, 3, 1, 2, 4, 5, 7, 9,
                 7, 2, 1, 9, 5, 3, 6, 8, 4,
                 5, 4, 9, 7, 6, 8, 1, 2, 3>>)

\* C9: related_coords(i, j) returns exactly the 20 coordinates that share
\* (i, j)'s row, column or block, (i, j) itself left out.
C9_RelatedCoordsExact ==
  q_pc = "returned" =>
    /\ q_related = Peers(<<q_i, q_j>>)
    /\ Cardinality(q_related) = 20

\* C9, reached: the call for (4, 4) returned, with the block-mates (3, 4) (same
\* column), (4, 5) (same row) and (5, 3) (neither) in the result.
C9_Witness ==
  /\ q_pc = "returned" /\ q_i = 4 /\ q_j = 4
  /\ {<<3, 4>>, <<4, 5>>, <<5, 3>>} \subseteq q_related

\* C4: a second propagator run on the board the first one left writes no cell
\* and leaves the board as it was.
C4_SecondRunWritesNothing ==
  run_no = 2 => sudoku = first_result /\ last_write = <<>> /\ values_found = 0

\* C4, reached: the second run broke out of its loop after a first run that
\* wrote cells and still left unknown ones.
C4_Witness ==
  /\ run_no = 2 /\ pm_pc = "done"
  /\ first_result # input
  /\ \E c \in Coords : first_result[c[1]][c[2]] = 0

\* C5 as first stated: the value just written is held by no non-zero cell of
\* the written cell's row, column or block, values written earlier in the same
\* reveal pass included.
C5_ConsistentAtWrite ==
  last_write # <<>> =>
    \A d \in Peers(<<last_write[1], last_write[2]>>) :
      sudoku[d[1]][d[2]] # last_write[3]

\* C5 amended: a value written in the current reveal pass (values_found > 0)
\* is held by no cell of the written cell's row, column or block that was
\* non-zero when the round's constrain pass read the board; on a board the
\* test puzzle's solution completes it is held by no non-zero related cell at all.
C5_ConsistentWithConstrainedCells ==
  (last_write # <<>> /\ values_found > 0) =>
    /\ \A d \in Peers(<<last_write[1], last_write[2]>>) :
         pass_grid[d[1]][d[2]] # last_write[3]
    /\ Completes(testdoku_solution, input) =>
         \A d \in Peers(<<last_write[1], last_write[2]>>) :
           sudoku[d[1]][d[2]] # last_write[3]

\* C5, reached: a write in a reveal pass that had already written a cell
\* related to this one.
C5_Witness ==
  /\ last_write # <<>> /\ values_found >= 2
  /\ \E d \in Peers(<<last_write[1], last_write[2]>>) :
       pass_grid[d[1]][d[2]] = 0 /\ sudoku[d[1]][d[2]] # 0

\* C10: the propagator never changes a non-zero cell, and on a board with a
\* valid completion S every non-zero cell agrees with S, whatever the round.
C10_SoundForCompletion ==
  /\ [](Completes(testdoku_solution, input) =>
          \A c \in Coords :
            sudoku[c[1]][c[2]] # 0 => sudoku[c[1]][c[2]] = testdoku_solution[c[1]][c[2]])
  /\ [][\A c \in Coords : sudoku[c[1]][c[2]] # 0 => sudoku'[c[1]][c[2]] = sudoku[c[1]][c[2]]]_vars

\* C10, reached: a board other than the test puzzle that its solution
\* completes, in its first run, with a cell just written and a cell filled
\* that the input left unknown.
C10_Witness ==
  /\ Completes(testdoku_solution, input) /\ input # SudokuObject(testdoku)
  /\ run_no = 1 /\ last_write # <<>>
  /\ \E c \in Coords : pass_grid[c[1]][c[2]] # 0 /\ input[c[1]][c[2]] = 0

\* Every row of g holds each symbol 1..9 exactly once.
RowsComplete(g) ==
  \A i \in Idx, n \in 1..9 : Cardinality({j \in Idx : g[i][j] = n}) = 1

\* Every column of g holds each symbol 1..9 exactly once.
ColumnsComplete(g) ==
  \A j \in Idx, n \in 1..9 : Cardinality({i \in Idx : g[i][j] = n}) = 1

\* Some row of g holds a non-zero value twice.
RowDuplicate(g) ==
  \E i \in Idx, j1, j2 \in Idx : j1 # j2 /\ g[i][j1] # 0 /\ g[i][j1] = g[i][j2]

\* Two given cells of one row, column or block hold the same value.
Contradictory(g) ==
  \E c \in Coords : g[c[1]][c[2]] # 0 /\ \E d \in Peers(c) : g[d[1]][d[2]] = g[c[1]][c[2]]

\* The boards run holds: the population, the parents, the children and the
\* board it returned.
Individuals ==
  {population[k] : k \in 1..Len(population)}
  \cup {parents_list[k] : k \in 1..Len(parents_list)}
  \cup {children_list[k] : k \in 1..Len(children_list)}
  \cup (IF ga_pc = "returned" THEN {returned} ELSE {})

\* C1: in every individual run holds, whatever the restart and generation,
\* every cell that is non-zero in the input board holds the input's value; the
\* fixed list is the list of those cells.
C1_FixedCellsKept ==
  /\ ga_pc \notin {"idle", "construct", "config_error"} =>
       fixed = {c \in Coords : init_sudoku[c[1]][c[2]] # 0}
  /\ \A g \in Individuals : \A c \in Coords :
       init_sudoku[c[1]][c[2]] # 0 => g[c[1]][c[2]] = init_sudoku[c[1]][c[2]]

\* C1, reached: a bred and mutated generation, of an input with fixed and free
\* cells, that holds two different boards.
C1_Witness ==
  /\ ga_pc = "cycle" /\ generations >= 1
  /\ fixed # {} /\ fixed # Coords
  /\ \E a, b \in 1..Len(population) : population[a] # population[b]

\* C6 as first stated: every individual of the first population and every
\* child has each symbol 1..9 exactly once in each row.
C6_RowsComplete ==
  \A g \in Individuals : RowsComplete(g)

\* C6 amended: when no row of the input board holds the same non-zero value
\* twice, every individual of the first population and every child has each
\* symbol 1..9 exactly once in each row.
C6_RowsCompleteWithoutRowDuplicate ==
  ~RowDuplicate(init_sudoku) => \A g \in Individuals : RowsComplete(g)

\* C6, reached: an input with no row duplicate and a row the filling has a
\* choice in, all children of a generation bred.
C6_Witness ==
  /\ ~RowDuplicate(init_sudoku)
  /\ Cardinality({c \in Coords : init_sudoku[c[1]][c[2]] = 0}) >= 2
  /\ ga_pc = "sample" /\ Len(children_list) = population_size

\* The population is as large as configured before and after selection,
\* breeding and mutation, the new child list holds as many, and pairing never
\* runs out of parents.
PopulationSizeStable ==
  /\ ga_pc \in {"cycle", "select", "breed", "sample", "mutate"} =>
       Len(population) = population_size
  /\ ga_pc \in {"sample", "mutate"} => Len(children_list) = population_size
  /\ ga_pc = "breed" => Len(parents_list) % 2 = 0 /\ pair_i + 1 < Len(parents_list)
  /\ ga_pc # "crashed"

\* The two parent counts lose nothing to int(), their sum is even and no more
\* than the population, and no more children are mutated than there are.
WholeParentCounts ==
  /\ (best_select_perc * population_size) % 100 = 0
  /\ (rand_select_perc * population_size) % 100 = 0
  /\ (((best_select_perc + rand_select_perc) * population_size) \div 100) % 2 = 0
  /\ best_select_perc + rand_select_perc <= 100
  /\ mutation_perc <= 100

C8_ContradictoryInputFails ==
  /\ [](Contradictory(init_sudoku) =>
          /\ \A g \in Individuals : fitness_filled_sudoku(g) # 0
          /\ ga_pc # "returned"
          /\ ga_pc = "raised" => restart_no = max_restart)
  /\ (Contradictory(init_sudoku) /\ ga_pc = "restart") ~> (ga_pc = "raised")

\* C8, reached: run raised on a contradictory input that had an unknown cell
\* and no row duplicate.
C8_Witness ==
  /\ Contradictory(init_sudoku) /\ ~RowDuplicate(init_sudoku)
  /\ \E c \in Coords : init_sudoku[c[1]][c[2]] = 0
  /\ ga_pc = "raised"

\* C2: run ends in one of two ways.  It returns only the first board of a
\* sorted generation, of fitness 0, at the first generation that holds a
\* fitness-0 board; it raises only after max_restart restarts of max_cycles
\* generations each, none of which held a fitness-0 board; every restart
\* starts from a freshly filled population; it never evaluates more than
\* max_restart * max_cycles generations; and it always ends.
C2_RunEndsOneOfTwoWays ==
  /\ [](/\ ga_pc = "returned" =>
             /\ fitness_filled_sudoku(returned) = 0
             /\ returned = population[1]
             /\ \A k \in 1..Len(population) :
                  fitness_filled_sudoku(population[1]) <= fitness_filled_sudoku(population[k])
        /\ zero_seen => ga_pc = "returned"
        /\ ga_pc = "raised" =>
             /\ ~zero_seen
             /\ restart_no = max_restart
             /\ Len(cycles_done) = max_restart
             /\ \A r \in 1..Len(cycles_done) : cycles_done[r] = max_cycles
             /\ generations = max_restart * max_cycles
        /\ (ga_pc = "cycle" /\ cycle_no = 0) =>
             /\ Len(population) = population_size
             /\ \A k \in 1..Len(population) :
                  population[k] \in rand_fill_sudoku(init_sudoku)
        /\ generations <= max_restart * max_cycles
        /\ ga_pc # "crashed")
  /\ (ga_pc = "restart") ~> (ga_pc \in {"returned", "raised"})

\* C2, reached: run returned in the second restart, not at its first
\* generation.
C2_Witness ==
  /\ ga_pc = "returned" /\ restart_no = 2 /\ cycle_no = 2

\* C3: the fitness of a full board is a natural number, and it is 0 exactly
\* when every row, column and block holds each symbol 1..9 exactly once.
C3_FitnessZeroIffSolved ==
  f_pc = "measured" =>
    /\ f_fitness \in Nat
    /\ f_fitness = 0 <=> ValidSolution(f_board)

\* C3, reached: a measured board whose rows and columns are complete and whose
\* blocks are not.
C3_Witness ==
  /\ f_pc = "measured" /\ f_fitness > 0
  /\ RowsComplete(f_board) /\ ColumnsComplete(f_board)

====
